---- MODULE Spec2Model ----
(***************************************************************************)
(* Versioned food-product store of src/src/index.ts: the express handlers  *)
(* over foodProductsStorage (a StableBTreeMap keyed by product id).        *)
(*                                                                         *)
(* Each handler is synchronous (no await), and a canister processes one    *)
(* request at a time, so one handler run is one step.  The middlewares     *)
(* authenticate / authorize / validateUUID run before the handler; the     *)
(* model covers requests that pass them (a request they stop never         *)
(* reaches the store).  Values a request can carry are drawn from small    *)
(* sets; an absent JSON field (undefined) is the Absent marker.            *)
(***************************************************************************)
EXTENDS Integers, Sequences, FiniteSets, TLC

\* ------------------------------------------------------------------ bounds
MaxIds == 1          \* number of ids uuidv4() hands out to Create
MaxWrites == 4       \* inserts into the store in one run (Create and mutations)
MaxPage == 1         \* largest page / limit value a List request carries
MaxRecords == 25     \* records in the store the paging runs start from
MaxListParam == 4    \* largest page / limit value of the paging runs

\* ------------------------------------------------- program constants
DefaultPage == 1
DefaultLimit == 10

\* ------------------------------------------------------------- JSON values
Absent == "<absent>"         \* undefined: the field is not in the body
NoVersion == -1              \* body without "version" (undefined)
NoId == -1                   \* body without "id"
ForeignId == 0               \* a well-formed UUID that uuidv4() never returned

\* the UUIDs uuidv4() returns, numbered as it returns them; the numbers name
\* the UUIDs and say nothing of their order as strings
GenIds == 1..MaxIds
Keys == {ForeignId} \cup GenIds

\* a JSON value that is an array, is something else, or is missing
Arr(s) == [tag |-> "array", items |-> s]
NotArr == [tag |-> "other", items |-> <<>>]
NoArr == [tag |-> "absent", items |-> <<>>]

Null == "null"

\* JavaScript truthiness of a body field: undefined (an absent field), the
\* empty string and null are falsy (so are 0 and false; the fields here are
\* strings, absent or null)
Truthy(v) == v # Absent /\ v # "" /\ v # Null

\* new Date(x) as it is returned and stored: a Date, no longer the raw input
NewDate(x) == "Date(" \o x \o ")"

\* getCurrentDate(): the canister clock, read as one abstract instant
getCurrentDate == "Date(now)"

VARIABLES
  store,       \* foodProductsStorage: key -> FoodProduct (a partial function)
  nextId,      \* the next id uuidv4() returns to Create
  keyOrder,    \* the keys the store has held so far, in the order of the map
  last,        \* the request handled last: [op, versioned]
  res,         \* its response: [status, kind, body, items]
  mutations,   \* per path id, the accepted mutations requested on it
  acceptedAt,  \* the (path id, expected version) pairs of accepted Updates
  deleted      \* the ids a successful Delete removed

vars == <<store, nextId, keyOrder, last, res, mutations, acceptedAt, deleted>>

\* the inserts so far: one per Create, one per accepted mutation
RECURSIVE SumOver(_, _)
SumOver(f, ks) ==
  IF ks = {} THEN 0
  ELSE LET k == CHOOSE x \in ks : TRUE IN f[k] + SumOver(f, ks \ {k})

Budget == (nextId - 1) + SumOver(mutations, Keys) < MaxWrites

\* --------------------------------------------------------- StableBTreeMap
Has(s, k) == k \in DOMAIN s

Insert(s, k, p) == [x \in (DOMAIN s) \cup {k} |-> IF x = k THEN p ELSE s[x]]

Remove(s, k) == [x \in (DOMAIN s) \ {k} |-> s[x]]

\* The map orders its keys as strings.  A UUID is random (uuidv4) or chosen
\* by a client, so where a key stands among the others is open until the
\* store first holds it; from then on it is fixed, also across a remove.
InsertAt(seq, p, k) == SubSeq(seq, 1, p) \o <<k>> \o SubSeq(seq, p + 1, Len(seq))

Placements(ord, k) ==
  IF \E i \in 1..Len(ord) : ord[i] = k THEN {ord}
  ELSE {InsertAt(ord, p, k) : p \in 0..Len(ord)}

\* values(): the stored values in key order
RECURSIVE ValuesFrom(_, _)
ValuesFrom(s, ks) ==
  IF ks = <<>> THEN <<>>
  ELSE (IF Head(ks) \in DOMAIN s THEN <<s[Head(ks)]>> ELSE <<>>)
         \o ValuesFrom(s, Tail(ks))

Values(s) == ValuesFrom(s, keyOrder)

\* ---------------------------------------------------- requests, responses
\* what is kept of a handled request: the route and, for a PUT, whether its
\* version check (line 155) ran on a version the body carries
Request(op, versioned) == [op |-> op, versioned |-> versioned]

Ok(p) == [status |-> 200, kind |-> "Ok", body |-> <<p>>, items |-> <<>>]

OkList(ps) == [status |-> 200, kind |-> "Ok", body |-> <<>>, items |-> ps]

Fail(code, k) == [status |-> code, kind |-> k, body |-> <<>>, items |-> <<>>]

\* errorHandler: a handler that throws answers 500
Thrown == Fail(500, "InternalError")

\* no early return and no throw: the handler gets to its insert
Passed == Fail(0, "Passed")

\* --------------------------------------------------------- history entries
Entry(k, x, y, b) == [kind |-> k, a |-> x, b |-> y, body |-> b]

CreatedEntry(origin, owner) == Entry("created", origin, owner, <<>>)

UpdatedEntry(body) == Entry("updated", "", "", <<body>>)

TransferredEntry(newOwner, newLocation) ==
  Entry("transferred", newOwner, newLocation, <<>>)

InspectedEntry(inspector, result) == Entry("inspected", inspector, result, <<>>)

\* ------------------------------------------------------------------ Create
\* a Create that stamps updatedAt at creation
NewProductStamped(id, name, origin, owner, expirationDate) ==
  [ id |-> id,
    name |-> name,
    origin |-> origin,
    currentLocation |-> origin,
    owner |-> owner,
    status |-> "Created",
    history |-> <<CreatedEntry(origin, owner)>>,
    createdAt |-> getCurrentDate,
    updatedAt |-> getCurrentDate,
    expirationDate |-> NewDate(expirationDate),
    inspections |-> Arr(<<>>),
    version |-> 1 ]

NewProduct(id, name, origin, owner, expirationDate) ==
  [ id |-> id,
    name |-> name,
    origin |-> origin,
    currentLocation |-> origin,
    owner |-> owner,
    status |-> "Created",
    history |-> <<CreatedEntry(origin, owner)>>,
    createdAt |-> getCurrentDate,
    updatedAt |-> Null,
    expirationDate |-> NewDate(expirationDate),
    inspections |-> Arr(<<>>),
    version |-> 1 ]

CreateInvalid(name, origin, owner, expirationDate) ==
  ~Truthy(name) \/ ~Truthy(origin) \/ ~Truthy(owner) \/ ~Truthy(expirationDate)

Create(name, origin, owner, expirationDate) ==
  /\ ~CreateInvalid(name, origin, owner, expirationDate) =>
        nextId <= MaxIds /\ Budget
  /\ last' = Request("Create", FALSE)
  /\ IF CreateInvalid(name, origin, owner, expirationDate)
     THEN /\ res' = Fail(400, "ValidationError")
          /\ UNCHANGED <<store, nextId, keyOrder>>
     ELSE LET product == NewProduct(nextId, name, origin, owner, expirationDate)
          IN /\ store' = Insert(store, product.id, product)
             /\ keyOrder' \in Placements(keyOrder, product.id)
             /\ nextId' = nextId + 1
             /\ res' = Ok(product)
  /\ UNCHANGED <<mutations, acceptedAt, deleted>>

\* --------------------------------------------------------------------- Get
GetResponse(s, k) == IF Has(s, k) THEN Ok(s[k]) ELSE Fail(404, "NotFound")

Get(k) ==
  /\ last' = Request("Get", FALSE)
  /\ res' = GetResponse(store, k)
  /\ UNCHANGED <<store, nextId, keyOrder, mutations, acceptedAt, deleted>>

\* ------------------------------------------------------------------ Update
\* req.body of PUT /products/:id, as far as the handler reads or spreads it
EmptyBody ==
  [ name |-> Absent, status |-> Absent, expirationDate |-> Absent,
    version |-> NoVersion, id |-> NoId, owner |-> Absent, origin |-> Absent,
    currentLocation |-> Absent, createdAt |-> Absent,
    history |-> NoArr, inspections |-> NoArr ]

UpdateInvalid(body) ==
  ~Truthy(body.name) /\ ~Truthy(body.status) /\ ~Truthy(body.expirationDate)

\* a guard that only rejects versions from the future
VersionConflictAhead(product, body) == product.version < body.version

\* product.version !== version (an absent version is undefined, equal to no number)
VersionConflict(product, body) == product.version # body.version

\* one field of { ...product, ...req.body }
Spread(old, new) == IF new # Absent THEN new ELSE old

\* { ...product, ...req.body, updatedAt, version } and the expirationDate fix-up;
\* history is still the JSON value the spread left there
Merged(product, body) ==
  [ id |-> IF body.id # NoId THEN body.id ELSE product.id,
    name |-> Spread(product.name, body.name),
    origin |-> Spread(product.origin, body.origin),
    currentLocation |-> Spread(product.currentLocation, body.currentLocation),
    owner |-> Spread(product.owner, body.owner),
    status |-> Spread(product.status, body.status),
    history |-> IF body.history.tag # "absent" THEN body.history
                ELSE Arr(product.history),
    createdAt |-> Spread(product.createdAt, body.createdAt),
    updatedAt |-> getCurrentDate,
    expirationDate |-> IF Truthy(body.expirationDate)
                       THEN NewDate(body.expirationDate)
                       ELSE Spread(product.expirationDate, body.expirationDate),
    inspections |-> IF body.inspections.tag # "absent" THEN body.inspections
                    ELSE product.inspections,
    version |-> product.version + 1 ]

\* updatedProduct.history.push(...): throws unless history is an array
PushThrows(json) == json.tag # "array"

UpdatedProduct(product, body) ==
  LET m == Merged(product, body)
  IN [m EXCEPT !.history = Append(m.history.items, UpdatedEntry(body))]

\* the answer PUT gives before its insert, in the order of the handler: the
\* field validation, the lookup, the version check, the throwing push
UpdateRejection(s, k, body) ==
  IF UpdateInvalid(body) THEN Fail(400, "ValidationError")
  ELSE IF ~Has(s, k) THEN Fail(400, "NotFound")
  ELSE IF VersionConflict(s[k], body) THEN Fail(409, "VersionConflict")
  ELSE IF PushThrows(Merged(s[k], body).history) THEN Thrown
  ELSE Passed

UpdateAccepts(k, body) == UpdateRejection(store, k, body) = Passed

Update(k, body) ==
  /\ UpdateAccepts(k, body) => Budget
  /\ last' = Request("Update", /\ ~UpdateInvalid(body)
                               /\ Has(store, k)
                               /\ body.version # NoVersion)
  /\ IF ~UpdateAccepts(k, body)
     THEN /\ res' = UpdateRejection(store, k, body)
          /\ UNCHANGED <<store, keyOrder, mutations, acceptedAt>>
     ELSE LET product == store[k]
              updatedProduct == UpdatedProduct(product, body)
          IN /\ store' = Insert(store, product.id, updatedProduct)
             /\ keyOrder' \in Placements(keyOrder, product.id)
             /\ res' = Ok(updatedProduct)
             /\ mutations' = [mutations EXCEPT ![k] = @ + 1]
             /\ acceptedAt' = acceptedAt \cup {<<k, body.version>>}
  /\ UNCHANGED <<nextId, deleted>>

\* ------------------------------------------------------------------ Delete
\* a Delete that does not look at what remove() returned
DeleteUnchecked(k) ==
  /\ last' = Request("Delete", FALSE)
  /\ store' = IF Has(store, k) THEN Remove(store, k) ELSE store
  /\ res' = IF Has(store, k) THEN Ok(store[k]) ELSE OkList(<<>>)
  /\ deleted' = IF Has(store, k) THEN deleted \cup {k} ELSE deleted
  /\ UNCHANGED <<nextId, keyOrder, mutations, acceptedAt>>

Delete(k) ==
  /\ last' = Request("Delete", FALSE)
  /\ IF ~Has(store, k)
     THEN /\ res' = Fail(400, "NotFound")
          /\ UNCHANGED <<store, deleted>>
     ELSE /\ store' = Remove(store, k)
          /\ res' = Ok(store[k])
          /\ deleted' = deleted \cup {k}
  /\ UNCHANGED <<nextId, keyOrder, mutations, acceptedAt>>

\* ---------------------------------------------------------------- Transfer
TransferInvalid(newOwner, newLocation) == ~Truthy(newOwner) \/ ~Truthy(newLocation)

TransferredProduct(product, newOwner, newLocation) ==
  [product EXCEPT
     !.owner = newOwner,
     !.currentLocation = newLocation,
     !.updatedAt = getCurrentDate,
     !.version = product.version + 1,
     !.history = Append(product.history, TransferredEntry(newOwner, newLocation))]

\* the answer the handler gives before its insert: the field validation,
\* then the lookup
TransferRejection(s, k, newOwner, newLocation) ==
  IF TransferInvalid(newOwner, newLocation) THEN Fail(400, "ValidationError")
  ELSE IF ~Has(s, k) THEN Fail(400, "NotFound")
  ELSE Passed

TransferAccepts(k, newOwner, newLocation) ==
  TransferRejection(store, k, newOwner, newLocation) = Passed

\* version is what the body carries as expected version: the handler takes
\* only newOwner and newLocation out of req.body and never reads it
Transfer(k, newOwner, newLocation, version) ==
  /\ TransferAccepts(k, newOwner, newLocation) => Budget
  /\ last' = Request("Transfer", FALSE)
  /\ IF ~TransferAccepts(k, newOwner, newLocation)
     THEN /\ res' = TransferRejection(store, k, newOwner, newLocation)
          /\ UNCHANGED <<store, keyOrder, mutations>>
     ELSE LET product == store[k]
              updatedProduct == TransferredProduct(product, newOwner, newLocation)
          IN /\ store' = Insert(store, product.id, updatedProduct)
             /\ keyOrder' \in Placements(keyOrder, product.id)
             /\ res' = Ok(updatedProduct)
             /\ mutations' = [mutations EXCEPT ![k] = @ + 1]
  /\ UNCHANGED <<nextId, acceptedAt, deleted>>

\* ----------------------------------------------------------------- Inspect
InspectInvalid(inspector, result) == ~Truthy(inspector) \/ ~Truthy(result)

\* the Inspection pushed; its uuid is one abstract value, and inspectionType
\* and batchInfo are carried exactly like remarks
NewInspection(inspector, result, remarks) ==
  [ id |-> "uuid", inspector |-> inspector, timestamp |-> getCurrentDate,
    result |-> result, remarks |-> remarks ]

InspectedProduct(product, inspector, result, remarks) ==
  [product EXCEPT
     !.inspections = Arr(Append(product.inspections.items,
                                NewInspection(inspector, result, remarks))),
     !.history = Append(product.history, InspectedEntry(inspector, result)),
     !.version = product.version + 1]

\* the answer the handler gives before its insert: the field validation,
\* the lookup, the throwing push
InspectRejection(s, k, inspector, result) ==
  IF InspectInvalid(inspector, result) THEN Fail(400, "ValidationError")
  ELSE IF ~Has(s, k) THEN Fail(400, "NotFound")
  ELSE IF PushThrows(s[k].inspections) THEN Thrown
  ELSE Passed

InspectAccepts(k, inspector, result) ==
  InspectRejection(store, k, inspector, result) = Passed

\* version is what the body carries as expected version: the handler takes
\* inspector, result, remarks, inspectionType and batchInfo out of req.body
\* and never reads it
Inspect(k, inspector, result, remarks, version) ==
  /\ InspectAccepts(k, inspector, result) => Budget
  /\ last' = Request("Inspect", FALSE)
  /\ IF ~InspectAccepts(k, inspector, result)
     THEN /\ res' = InspectRejection(store, k, inspector, result)
          /\ UNCHANGED <<store, keyOrder, mutations>>
     ELSE LET product == InspectedProduct(store[k], inspector, result, remarks)
          IN /\ store' = Insert(store, store[k].id, product)
             /\ keyOrder' \in Placements(keyOrder, store[k].id)
             /\ res' = Ok(product)
             /\ mutations' = [mutations EXCEPT ![k] = @ + 1]
  /\ UNCHANGED <<nextId, acceptedAt, deleted>>

\* -------------------------------------------------------------------- List
NoParam == -1                \* query without the parameter

Min(a, b) == IF a < b THEN a ELSE b

Max(a, b) == IF a > b THEN a ELSE b

\* Array.prototype.slice(start, end)
Slice(seq, start, end) ==
  LET len == Len(seq)
      from == IF start < 0 THEN Max(len + start, 0) ELSE Min(start, len)
      to == IF end < 0 THEN Max(len + end, 0) ELSE Min(end, len)
  IN IF from < to THEN SubSeq(seq, from + 1, to) ELSE <<>>

\* a List whose first page is page 0
ListPageFromZero(s, pageParam, limitParam) ==
  LET page == IF pageParam = NoParam THEN DefaultPage ELSE pageParam
      limit == IF limitParam = NoParam THEN DefaultLimit ELSE limitParam
      start == page * limit
      end == (page + 1) * limit
  IN Slice(Values(s), start, end)

ListPage(s, pageParam, limitParam) ==
  LET page == IF pageParam = NoParam THEN DefaultPage ELSE pageParam
      limit == IF limitParam = NoParam THEN DefaultLimit ELSE limitParam
      start == (page - 1) * limit
      end == page * limit
  IN Slice(Values(s), start, end)

List(pageParam, limitParam) ==
  /\ last' = Request("List", FALSE)
  /\ res' = OkList(ListPage(store, pageParam, limitParam))
  /\ UNCHANGED <<store, nextId, keyOrder, mutations, acceptedAt, deleted>>

\* ------------------------------------------------------------------ inputs
NameValues == {Absent, "", Null, "Apples"}

OriginValues == {Absent, "Farm A"}

OwnerValues == {Absent, "Ann"}

ExpirationValues == {Absent, "2025-01-01"}

\* the bodies a POST /products carries: <<name, origin, owner, expirationDate>>
\* with at most one of the four missing, empty or null
CreateBodies ==
  { c \in NameValues \X OriginValues \X OwnerValues \X ExpirationValues :
      Cardinality({i \in 1..4 : ~Truthy(c[i])}) <= 1 }

\* the bodies a PUT carries: no field at all, an empty or null name, name alone,
\* name with an empty expirationDate and a foreign id, name with a history
\* that is no array, and status and expirationDate together with every other
\* field of the record
FieldlessBodies ==
  { EmptyBody, [EmptyBody EXCEPT !.name = ""], [EmptyBody EXCEPT !.name = Null] }

UpdatableBodies == { [EmptyBody EXCEPT !.name = "Pears"] }

IdBodies ==
  { [EmptyBody EXCEPT !.name = "Pears", !.expirationDate = "", !.id = ForeignId] }

ExtraBodies ==
  { [EmptyBody EXCEPT !.name = "Pears", !.history = NotArr],
    [EmptyBody EXCEPT !.status = "Shipped", !.expirationDate = "2026-02-02",
                      !.owner = "Eve", !.origin = "Farm X",
                      !.currentLocation = "Nowhere",
                      !.createdAt = "1999-01-01",
                      !.history = Arr(<<>>), !.inspections = NotArr] }

\* the versions a body carries: none, or any version a record can have while
\* the budget still admits a mutation of it
MaxVersion == MaxWrites - 1

VersionValues == {NoVersion} \cup (1..MaxVersion)

\* a body without an updatable field is drawn with no version and with 1
UpdateBodies ==
  { [b EXCEPT !.version = v] :
      b \in UpdatableBodies \cup IdBodies \cup ExtraBodies, v \in VersionValues }
  \cup { [b EXCEPT !.version = v] : b \in FieldlessBodies, v \in {NoVersion, 1} }

\* the expected version a Transfer or Inspect body carries: none, or the
\* version of a record as created (stale once the record has been mutated)
ExpectedVersionValues == {NoVersion, 1}

NewOwnerValues == {Absent, "", Null, "Bob"}

NewLocationValues == {Absent, "Warehouse 1"}

\* <<newOwner, newLocation>> with at most one of the two missing, empty or null
TransferBodies ==
  { c \in NewOwnerValues \X NewLocationValues :
      Truthy(c[1]) \/ Truthy(c[2]) }

InspectorValues == {Absent, "", Null, "Insp1"}

ResultValues == {Absent, "Passed"}

\* <<inspector, result>> with at most one of the two missing, empty or null
InspectBodies ==
  { c \in InspectorValues \X ResultValues : Truthy(c[1]) \/ Truthy(c[2]) }

RemarksValues == {Absent}

PageValues == {NoParam} \cup (0..MaxPage)

\* the versions a PUT on k is sent with: none, 1 (the version of a record as
\* created, stale once it has been mutated) and the one the record has now
VersionDrawn(k, version) ==
  \/ version \in {NoVersion, 1}
  \/ Has(store, k) /\ version = store[k].version

Init ==
  /\ store = <<>>
  /\ nextId = 1
  /\ keyOrder = <<>>
  /\ last = Request("None", FALSE)
  /\ res = Fail(0, "None")
  /\ mutations = [k \in Keys |-> 0]
  /\ acceptedAt = {}
  /\ deleted = {}

Next ==
  \/ \E c \in CreateBodies : Create(c[1], c[2], c[3], c[4])
  \/ \E k \in Keys : Get(k)
  \/ \E p, l \in PageValues : List(p, l)
  \/ \E k \in Keys, b \in UpdateBodies : VersionDrawn(k, b.version) /\ Update(k, b)
  \/ \E k \in Keys : Delete(k)
  \/ \E k \in Keys, c \in TransferBodies, v \in ExpectedVersionValues :
        Transfer(k, c[1], c[2], v)
  \/ \E k \in Keys, c \in InspectBodies, m \in RemarksValues,
        v \in ExpectedVersionValues :
        Inspect(k, c[1], c[2], m, v)

Spec == Init /\ [][Next]_vars

\* ------------------------------------------------------------ paging runs
\* GET /products over a store that n accepted Creates have filled and nothing
\* modifies: the store starts with n records and only List runs.  Here the
\* records are numbered by the place of their key in the map, and any of
\* them is the one created last.
ListParams == {NoParam} \cup (0..MaxListParam)

StoreOf(n) ==
  [k \in 1..n |-> NewProduct(k, "Apples", "Farm A", "Ann", "2025-01-01")]

ListInit ==
  /\ \E n \in 0..MaxRecords :
       /\ store = StoreOf(n)
       /\ nextId = n + 1
       /\ keyOrder = [i \in 1..n |-> i]
  /\ IF nextId = 1
     THEN last = Request("None", FALSE) /\ res = Fail(0, "None")
     ELSE last = Request("Create", FALSE) /\ \E k \in 1..(nextId - 1) : res = Ok(store[k])
  /\ mutations = [k \in Keys |-> 0]
  /\ acceptedAt = {}
  /\ deleted = {}

ListNext == \E p, l \in ListParams : List(p, l)

ListSpec == ListInit /\ [][ListNext]_vars

\* ================================================================== claims
IsPrefix(s, t) == Len(s) <= Len(t) /\ SubSeq(t, 1, Len(s)) = s

Created == 1..(nextId - 1)

\* Every handler records its route in last, so a step of handler H has
\* last'.op = H: the formulas below look only at the steps of the handler
\* they are about, and find the id and the body of the step by asking which
\* request the step is the handling of.

\* the record a successful response carries
Returned(r) == r.body[1]

\* the answer of a PUT that lost the version check
ConflictAnswered ==
  res'.kind = "VersionConflict" /\ res'.status = 409 /\ store' = store

\* C1: an Update on an existing record that supplies an expected version
\* different from the stored one (and an updatable field) answers
\* VersionConflict (409) and leaves the whole store, the record included, as
\* it was.  Stated from the answer: a versioned PUT on a stored record that
\* is not answered that way is not the PUT of any such body.
C1_LostUpdatePrevention ==
  [][( /\ last'.op = "Update"
       /\ last'.versioned
       /\ ~ConflictAnswered ) =>
     \A k \in DOMAIN store, b \in UpdateBodies :
       ( /\ ~UpdateInvalid(b)
         /\ b.version # NoVersion
         /\ b.version # store[k].version )
       => ~Update(k, b)]_vars

\* C1 witness: a versioned Update on a stored record was answered VersionConflict
C1_Witness ==
  /\ last.op = "Update"
  /\ last.versioned
  /\ res.kind = "VersionConflict"
  /\ \E k \in DOMAIN store : store[k].version > 1

\* C2: of the Updates that supply the same expected version V for the same
\* record, at most one is accepted: an accepted Update never repeats a
\* (record, expected version) pair that was accepted before.
C2_AtMostOneAccepted ==
  [][(last'.op = "Update" /\ res'.status = 200) =>
     \A k \in DOMAIN store, b \in UpdateBodies :
       Update(k, b) => <<k, b.version>> \notin acceptedAt]_vars

\* C3: a record created by Create that has had N accepted mutations has
\* version 1 + N and at least 1 + N history entries.
C3_VersionMonotonicity ==
  \A k \in Created \cap DOMAIN store :
    /\ store[k].version = 1 + mutations[k]
    /\ Len(store[k].history) >= 1 + mutations[k]

\* C4: over every step, the history of a record that stays in the store only
\* grows at its end: the old history is a prefix of the new one.
C4_AppendOnlyHistory ==
  [][\A k \in DOMAIN store \cap DOMAIN store' :
       IsPrefix(store[k].history, store'[k].history)]_vars

\* C5: an Update on an existing record that carries no expected version (and
\* an updatable field) succeeds and increments the stored version by 1.
C5_UnversionedUpdateAdmitted ==
  [][last'.op = "Update" =>
     \A k \in DOMAIN store, b \in UpdateBodies :
       ( /\ Has(store, k)
         /\ ~UpdateInvalid(b)
         /\ b.version = NoVersion
         /\ Update(k, b) )
       => ( /\ res'.status = 200
            /\ Has(store', k)
            /\ store'[k].version = store[k].version + 1 )]_vars

MutationKind(op) ==
  CASE op = "Update" -> "updated"
    [] op = "Transfer" -> "transferred"
    [] op = "Inspect" -> "inspected"
    [] OTHER -> "none"

StepSucceeded ==
  /\ res'.status = 200
  /\ CASE last'.op = "Create" ->
            /\ ~Has(store, Returned(res').id)
            /\ store' = Insert(store, Returned(res').id, Returned(res'))
            /\ Returned(res').version = 1
            /\ Len(Returned(res').history) = 1
       [] last'.op \in {"Update", "Transfer", "Inspect"} ->
            /\ \E k \in DOMAIN store :
                 Returned(res').version = store[k].version + 1
            /\ Len(Returned(res').history) >= 1
            /\ Returned(res').history[Len(Returned(res').history)].kind
                 = MutationKind(last'.op)
            /\ \E j \in Keys : store' = Insert(store, j, Returned(res'))
       [] last'.op = "Delete" ->
            /\ \E k \in DOMAIN store : store' = Remove(store, k)
       [] OTHER -> store' = store

StepFailed ==
  /\ res'.kind \in {"ValidationError", "NotFound", "VersionConflict"}
  /\ store' = store

\* C6: every operation either succeeds with all of its effects in the store
\* (a mutation: the written record carries the version incremented by 1 and
\* the new history entry as its last one) or answers ValidationError,
\* NotFound or VersionConflict with the store as it was.
C6_AllOrNothing == [][StepSucceeded \/ StepFailed]_vars

UnknownIdStep(k) ==
  \/ Get(k)
  \/ Delete(k)
  \/ \E b \in UpdateBodies : Update(k, b)
  \/ \E o \in NewOwnerValues, l \in NewLocationValues,
        v \in ExpectedVersionValues :
       Transfer(k, o, l, v)
  \/ \E i \in InspectorValues, r \in ResultValues, m \in RemarksValues,
        v \in ExpectedVersionValues :
       Inspect(k, i, r, m, v)

\* C7 as stated: Get, Update, Delete, Transfer and Inspect on an id that is not
\* in the store answer NotFound whatever else the command carries, and leave
\* the store as it was.
C7_UnknownIdAlwaysNotFound ==
  [][last'.op \in {"Get", "Update", "Delete", "Transfer", "Inspect"} =>
     \A k \in Keys \ DOMAIN store :
       UnknownIdStep(k) => (res'.kind = "NotFound" /\ store' = store)]_vars

IdOps == {"Get", "Update", "Delete", "Transfer", "Inspect"}

\* the answer C7 expects on an unknown id, by whether the command fails the
\* handler's field validation
UnknownIdKind(invalid) == IF invalid THEN "ValidationError" ELSE "NotFound"

\* what Get, Update, Transfer and Inspect answer on every id the store does
\* not hold, for every body
UnknownIdRejected ==
  \A k \in Keys \ DOMAIN store :
    /\ GetResponse(store, k).kind = "NotFound"
    /\ \A b \in UpdateBodies :
         UpdateRejection(store, k, b).kind = UnknownIdKind(UpdateInvalid(b))
    /\ \A o \in NewOwnerValues, l \in NewLocationValues :
         TransferRejection(store, k, o, l).kind
           = UnknownIdKind(TransferInvalid(o, l))
    /\ \A i \in InspectorValues, r \in ResultValues :
         InspectRejection(store, k, i, r).kind
           = UnknownIdKind(InspectInvalid(i, r))

\* C7 amended: on an id that is not in the store, Get and Delete answer
\* NotFound; Update, Transfer and Inspect answer NotFound when the command
\* passes the handler's field validation and ValidationError when it does
\* not; in every case the store is left as it was.
\* (In every state the handlers answer so on every unknown id; a step
\* answered NotFound or ValidationError leaves the store as it was; and a
\* Delete step not answered NotFound with the store as it was is not the
\* Delete of an unknown id.)
C7_UnknownId ==
  /\ []UnknownIdRejected
  /\ [][last'.op \in IdOps =>
        /\ res'.kind \in {"NotFound", "ValidationError"} => store' = store
        /\ last'.op = "Delete" =>
             \A k \in Keys \ DOMAIN store :
               ~(res'.kind = "NotFound" /\ store' = store) => ~Delete(k)]_vars

\* C7 witness: a Delete on an id that is not stored was answered NotFound,
\* with other records in the store
C7_Witness ==
  /\ last.op = "Delete"
  /\ res.kind = "NotFound"
  /\ store # <<>>

\* C8: a Create with all four fields stores a new record under a fresh id,
\* and Get on that id then returns it with version 1, one history entry, no
\* inspections, status "Created", currentLocation = origin and updatedAt null;
\* a Create with a field missing answers ValidationError and stores nothing.
C8_CreateRoundTrip ==
  [][last'.op = "Create" =>
     \A n \in NameValues, o \in OriginValues, w \in OwnerValues,
        e \in ExpirationValues :
       (<<n, o, w, e>> \in CreateBodies /\ Create(n, o, w, e)) =>
         IF CreateInvalid(n, o, w, e)
         THEN res'.kind = "ValidationError" /\ store' = store
         ELSE /\ res'.status = 200
              /\ ~Has(store, Returned(res').id)
              /\ DOMAIN store' = DOMAIN store \cup {Returned(res').id}
              /\ \A j \in DOMAIN store : store'[j] = store[j]
              /\ LET got == GetResponse(store', Returned(res').id)
                 IN /\ got.status = 200
                    /\ Returned(got) = Returned(res')
                    /\ Returned(got).version = 1
                    /\ Len(Returned(got).history) = 1
                    /\ Returned(got).inspections = Arr(<<>>)
                    /\ Returned(got).status = "Created"
                    /\ Returned(got).currentLocation = o
                    /\ Returned(got).name = n
                    /\ Returned(got).origin = o
                    /\ Returned(got).owner = w
                    /\ Returned(got).updatedAt = Null]_vars

\* C8 witness: a Create has just stored its record
C8_Witness ==
  /\ last.op = "Create"
  /\ res.status = 200
  /\ Has(store, Returned(res).id)
  /\ store[Returned(res).id] = Returned(res)
  /\ Returned(res).version = 1

\* C9: an id removed by a successful Delete is absent from the store in every
\* later state.
C9_DeleteIsPermanent == \A k \in deleted : ~Has(store, k)

\* C10: a successful Update leaves owner, currentLocation, origin and
\* inspections of the record as they were, changes name, status and
\* expirationDate only when the body supplies them, sets updatedAt,
\* increments version by 1 and appends one history entry.
C10_UpdateFrame ==
  [][(last'.op = "Update" /\ res'.status = 200) =>
     \A k \in DOMAIN store, b \in UpdateBodies :
       Update(k, b) =>
         /\ Has(store', k)
         /\ LET p == store[k]
                q == store'[k]
            IN /\ q.owner = p.owner
               /\ q.currentLocation = p.currentLocation
               /\ q.origin = p.origin
               /\ q.inspections = p.inspections
               /\ b.name = Absent => q.name = p.name
               /\ b.status = Absent => q.status = p.status
               /\ b.expirationDate = Absent => q.expirationDate = p.expirationDate
               /\ q.updatedAt # Null
               /\ q.version = p.version + 1
               /\ Len(q.history) = Len(p.history) + 1
               /\ IsPrefix(p.history, q.history)]_vars

\* C11: a Transfer with newOwner and newLocation on a stored record answers
\* 200 and leaves that record with owner = newOwner, currentLocation =
\* newLocation, updatedAt set, version one higher and one more history entry
\* at the end, with name, origin, status, expirationDate and inspections as
\* they were; a Transfer with one of the two missing answers ValidationError
\* and leaves the store as it was.
C11_TransferFrame ==
  [][last'.op = "Transfer" =>
     \A k \in Keys, o \in NewOwnerValues, l \in NewLocationValues,
        v \in ExpectedVersionValues :
       Transfer(k, o, l, v) =>
         IF TransferInvalid(o, l)
         THEN res'.kind = "ValidationError" /\ store' = store
         ELSE Has(store, k) =>
                /\ res'.status = 200
                /\ Has(store', k)
                /\ LET p == store[k]
                       q == store'[k]
                   IN /\ q.owner = o
                      /\ q.currentLocation = l
                      /\ q.updatedAt # Null
                      /\ q.version = p.version + 1
                      /\ Len(q.history) = Len(p.history) + 1
                      /\ IsPrefix(p.history, q.history)
                      /\ q.name = p.name
                      /\ q.origin = p.origin
                      /\ q.status = p.status
                      /\ q.expirationDate = p.expirationDate
                      /\ q.inspections = p.inspections]_vars

\* C12: an Inspect with inspector and result on a stored record answers 200
\* and leaves that record with one more Inspection at the end of inspections,
\* one more history entry at the end and version one higher, with name,
\* origin, owner, currentLocation, status and expirationDate as they were; an
\* Inspect with one of the two missing answers ValidationError and leaves the
\* store as it was.
C12_InspectFrame ==
  [][last'.op = "Inspect" =>
     \A k \in Keys, i \in InspectorValues, r \in ResultValues,
        m \in RemarksValues, v \in ExpectedVersionValues :
       Inspect(k, i, r, m, v) =>
         IF InspectInvalid(i, r)
         THEN res'.kind = "ValidationError" /\ store' = store
         ELSE Has(store, k) =>
                /\ res'.status = 200
                /\ Has(store', k)
                /\ LET p == store[k]
                       q == store'[k]
                   IN /\ q.inspections.tag = "array"
                      /\ Len(q.inspections.items) = Len(p.inspections.items) + 1
                      /\ IsPrefix(p.inspections.items, q.inspections.items)
                      /\ q.inspections.items[Len(q.inspections.items)].inspector = i
                      /\ q.inspections.items[Len(q.inspections.items)].result = r
                      /\ q.version = p.version + 1
                      /\ Len(q.history) = Len(p.history) + 1
                      /\ IsPrefix(p.history, q.history)
                      /\ q.name = p.name
                      /\ q.origin = p.origin
                      /\ q.owner = p.owner
                      /\ q.currentLocation = p.currentLocation
                      /\ q.status = p.status
                      /\ q.expirationDate = p.expirationDate]_vars

\* the elements of seq at positions a (excluded) to b (included), in order
Window(seq, a, b) == [i \in 1..Max(b - a, 0) |-> seq[a + i]]

\* page and limit as the claim reads them: 1 and 10 when unspecified
PageOf(pageParam) == IF pageParam = NoParam THEN 1 ELSE pageParam

LimitOf(limitParam) == IF limitParam = NoParam THEN 10 ELSE limitParam

Ceil(n, d) == (n + d - 1) \div d

Range(seq) == {seq[i] : i \in 1..Len(seq)}

\* pages from..to at one limit, as a sequence of pages
RECURSIVE PageSeq(_, _, _, _)
PageSeq(s, limitParam, from, to) ==
  IF from > to THEN <<>>
  ELSE <<ListPage(s, from, limitParam)>> \o PageSeq(s, limitParam, from + 1, to)

RECURSIVE Joined(_)
Joined(pages) == IF pages = <<>> THEN <<>> ELSE Head(pages) \o Joined(Tail(pages))

\* at every limit L >= 1: pages 1..ceil(N/L) joined are all the stored
\* records, two different pages share no record, the next page is empty
PagesPartition ==
  \A l \in ListParams :
    LimitOf(l) >= 1 =>
      LET N == Cardinality(DOMAIN store)
          count == Ceil(N, LimitOf(l))
          pages == PageSeq(store, l, 1, count + 1)
      IN /\ Joined(SubSeq(pages, 1, count)) = Values(store)
         /\ pages[count + 1] = <<>>
         /\ \A p1, p2 \in 1..count :
              p1 # p2 => Range(pages[p1]) \cap Range(pages[p2]) = {}

\* C13: on an unmodified store of N records, List with page p >= 1 and limit
\* L >= 1 (1 and 10 when unspecified) answers exactly the records at
\* positions (p-1)*L up to but excluding min(p*L, N) of the key order and
\* leaves the store as it was; so at every limit two different pages share no
\* record, a page past the end is empty, and pages 1..ceil(N/L) joined are
\* all the stored records.
C13_Pagination ==
  /\ []PagesPartition
  /\ [][last'.op = "List" =>
        /\ store' = store
        /\ \A p, l \in ListParams :
             (PageOf(p) >= 1 /\ LimitOf(l) >= 1 /\ List(p, l)) =>
               LET all == Values(store)
                   N == Len(all)
               IN res'.items = Window(all, Min((PageOf(p) - 1) * LimitOf(l), N),
                                           Min(PageOf(p) * LimitOf(l), N))]_vars

\* C13 witness: page 3 of 25 records at limit 10 was answered with the 5
\* records from the 21st on
C13_Witness ==
  /\ last.op = "List"
  /\ Cardinality(DOMAIN store) = 25
  /\ Len(res.items) = 5
  /\ res.items[1] = Values(store)[21]

\* C14: whenever Get, Update, Delete, Transfer or Inspect answers NotFound,
\* the status code of the answer is 404.
C14_NotFoundIs404 ==
  (last.op \in IdOps /\ res.kind = "NotFound") => res.status = 404

\* C15: a Transfer or an Inspect on a stored record whose body passes the
\* field validation and carries an expected version different from the
\* stored one is answered VersionConflict and writes nothing.
C15_GuardOnEveryMutation ==
  [][last'.op \in {"Transfer", "Inspect"} =>
     \A k \in DOMAIN store, v \in ExpectedVersionValues :
       ( /\ v # NoVersion
         /\ v # store[k].version
         /\ \/ \E o \in NewOwnerValues, l \in NewLocationValues :
                 ~TransferInvalid(o, l) /\ Transfer(k, o, l, v)
            \/ \E i \in InspectorValues, r \in ResultValues, m \in RemarksValues :
                 ~InspectInvalid(i, r) /\ Inspect(k, i, r, m, v) )
       => (res'.kind = "VersionConflict" /\ store' = store)]_vars

\* C16: every stored record is stored under its own id, that id is one
\* Create generated, and its createdAt is the value its Create set.
C16_IdentityImmutable ==
  \A k \in DOMAIN store :
    /\ store[k].id = k
    /\ k \in Created
    /\ store[k].createdAt = getCurrentDate

\* C17: a stored record has updatedAt null exactly when its version is 1.
C17_UpdatedAtTracksMutation ==
  \A k \in DOMAIN store :
    (store[k].updatedAt = Null) <=> (store[k].version = 1)

\* C18: over every step, the inspections of a record that stays in the store
\* remain an array of which the old inspections are a prefix, and they grow
\* only in a step of Inspect.
C18_AppendOnlyInspections ==
  [][\A k \in DOMAIN store \cap DOMAIN store' :
       LET p == store[k].inspections
           q == store'[k].inspections
       IN p.tag = "array" =>
            /\ q.tag = "array"
            /\ IsPrefix(p.items, q.items)
            /\ Len(q.items) > Len(p.items) => last'.op = "Inspect"]_vars

\* C19: an Update on a stored record that carries an updatable field and an
\* expected version equal to the stored version is accepted (answered 200).
\* Stated from the answer: an Update on a stored record that is not answered
\* 200 is not the Update of any such body.
C19_RetrySucceeds ==
  [][(last'.op = "Update" /\ res'.status # 200) =>
     \A k \in DOMAIN store, b \in UpdateBodies :
       (~UpdateInvalid(b) /\ b.version = store[k].version) => ~Update(k, b)]_vars

\* C20: every stored record has as many history entries as its version says
\* and at most version - 1 inspections.
C20_LengthsFollowVersion ==
  \A k \in DOMAIN store :
    /\ Len(store[k].history) = store[k].version
    /\ Len(store[k].inspections.items) <= store[k].version - 1

====
